---------------------------- MODULE Spec2Model ----------------------------
(***************************************************************************)
(* Model of src/install/compileLib.ts: the orchestration of the native     *)
(* build of opencv4nodejs (compileLib) and the pure flag derivations it    *)
(* uses.                                                                   *)
(*                                                                         *)
(* JavaScript strings are TLC strings, concatenated with \o.  A module     *)
(* name is kept as a sequence of one-character strings so that             *)
(* String.prototype.toUpperCase can be computed character by character.    *)
(* The JavaScript value undefined is the string Undefined.                 *)
(***************************************************************************)
EXTENDS Naturals, Sequences, FiniteSets, TLC

(***************************************************************************)
(* Bounds of the model.                                                    *)
(***************************************************************************)
\* longest argument list given to compileLib
MaxArgs == 2
\* longest module list the builder's getLibs() answers with
MaxLibs == 2

(***************************************************************************)
(* JavaScript values.                                                      *)
(***************************************************************************)
Undefined == "<undefined>"

\* ToBoolean of a string-or-undefined value
Truthy(v) == v # Undefined /\ v # ""

(***************************************************************************)
(* Constants of compileLib.ts, lines 11-14.                                *)
(***************************************************************************)
defaultDir == "/usr/local"
defaultLibDir == defaultDir \o "/lib"
defaultIncludeDir == defaultDir \o "/include"
defaultIncludeDirOpenCV4 == defaultIncludeDir \o "/opencv4"

\* path.join(__dirname, '..') and the two descriptor files, lines 153-155
cwd == "/pkg"
hidenGyp == cwd \o "/_binding.gyp"
realGyp == cwd \o "/binding.gyp"

usageText == "Usage: install [--version=<version>] [--dry-run] [--flags=<flags>] [--cuda] [--nocontrib] [--nobuild] build"

(***************************************************************************)
(* Inputs: the argument tokens, the environment and the builder's answers. *)
(***************************************************************************)
ArgTokens == {"build", "--help", "-h", "--dry-run", "--dryrun", "--nobuild",
              "--jobs=4", "-j=2"}

\* argument lists: the code only asks which tokens occur (mri's flags and
\* args.includes), so a list is kept as the set of its tokens
ArgLists == {a \in SUBSET ArgTokens : Cardinality(a) <= MaxArgs}

EnvLibDirValues == {Undefined, "", "opencv/lib"}
EnvIncludeDirValues == {Undefined, "opencv/include"}
EnvDebugValues == {Undefined, "1"}

builtLibDir == "/build/opencv/lib"
builtInclude == "/build/opencv/include"
builtInclude4 == "/build/opencv/include/opencv4"

\* module names, as sequences of characters
Core == <<"c", "o", "r", "e">>
Imgproc == <<"i", "m", "g", "p", "r", "o", "c">>
Features2d == <<"f", "e", "a", "t", "u", "r", "e", "s", "2", "d">>
ModuleNames == {Core, Imgproc, Features2d}

RECURSIVE Text(_)
\* the string a sequence of characters spells
Text(cs) == IF cs = <<>> THEN "" ELSE Head(cs) \o Text(Tail(cs))

\* the library file the builder finds for a module
LibFile(name) == "/build/opencv/lib/libopencv_" \o Text(name) \o ".so"

\* OpencvModule: opencvModule and an optional libPath
OpencvModules ==
    {[opencvModule |-> n, libPath |-> p] :
        n \in ModuleNames, p \in {Undefined}} \cup
    {[opencvModule |-> n, libPath |-> LibFile(n)] : n \in ModuleNames}

\* the modules the builder knows, in the order it lists them
BuilderModules == <<Core, Imgproc, Features2d>>

\* the position of a module name in the builder's list
ModuleIndex(name) == CHOOSE i \in 1..Len(BuilderModules) : BuilderModules[i] = name

\* what getLibs() can answer: modules in the builder's order, each with the
\* library file found for it or with none
BuilderResponses ==
    UNION {{s \in [1..k -> OpencvModules] :
              \A i, j \in 1..k :
                  i < j => ModuleIndex(s[i].opencvModule) < ModuleIndex(s[j].opencvModule)} :
           k \in 0..MaxLibs}

(***************************************************************************)
(* Library code used by compileLib.ts.                                     *)
(***************************************************************************)
\* mri(args): the options the tokens set; a value option keeps its value
Mri(a) ==
    [help |-> "--help" \in a,
     h |-> "-h" \in a,
     nobuild |-> "--nobuild" \in a,
     dryrun |-> "--dryrun" \in a,
     dry_run |-> "--dry-run" \in a,
     jobs |-> IF "--jobs=4" \in a THEN "4" ELSE Undefined,
     j |-> IF "-j=2" \in a THEN "2" ELSE Undefined]

\* path.resolve of the paths the inputs hold: a relative path is anchored
\* at the working directory of the process, an absolute path is kept
PathResolve(p) ==
    CASE p = "opencv/lib" -> "/home/user/opencv/lib"
      [] p = "opencv/include" -> "/home/user/opencv/include"
      [] OTHER -> p

\* resolvePath of ../lib/commons: nothing for a missing or empty path,
\* else the normalized absolute path
resolvePath(p) == IF ~Truthy(p) THEN Undefined ELSE PathResolve(p)

LowerCase == <<"a", "b", "c", "d", "e", "f", "g", "h", "i", "j", "k", "l", "m",
               "n", "o", "p", "q", "r", "s", "t", "u", "v", "w", "x", "y", "z">>
UpperCase == <<"A", "B", "C", "D", "E", "F", "G", "H", "I", "J", "K", "L", "M",
               "N", "O", "P", "Q", "R", "S", "T", "U", "V", "W", "X", "Y", "Z">>

\* the upper-case letter of each lower-case letter
UpperOf ==
    [c \in {LowerCase[i] : i \in 1..Len(LowerCase)} |->
        UpperCase[CHOOSE i \in 1..Len(LowerCase) : LowerCase[i] = c]]

\* toUpperCase of one character
ToUpperChar(c) == IF c \in DOMAIN UpperOf THEN UpperOf[c] ELSE c

\* String.prototype.toUpperCase
toUpperCase(cs) == [i \in 1..Len(cs) |-> ToUpperChar(cs[i])]

RECURSIVE join(_, _)
\* Array.prototype.join: an undefined element is joined as the empty string
join(seq, sep) ==
    IF seq = <<>> THEN ""
    ELSE LET first == IF Head(seq) = Undefined THEN "" ELSE Head(seq)
         IN IF Len(seq) = 1 THEN first
            ELSE first \o sep \o join(Tail(seq), sep)

RECURSIVE FilterFrom(_, _, _)
\* the loop of Array.prototype.filter: visits the elements from the first to
\* the last and appends each one the predicate keeps
FilterFrom(seq, i, kept) ==
    IF i > Len(seq) THEN kept
    ELSE FilterFrom(seq, i + 1,
                    IF Truthy(seq[i].libPath) THEN Append(kept, seq[i]) ELSE kept)

\* the filter testing the name instead of the path: every entry is kept
filterOpencvModule(seq) == seq

\* libsInDir.filter(lib => lib.libPath), line 132
filterLibPath(seq) == FilterFrom(seq, 1, <<>>)

(***************************************************************************)
(* The functions of compileLib.ts.  A function that may throw answers a    *)
(* record: threw, the value or the message, and the variables it read.     *)
(***************************************************************************)
Returns(v, reads) == [threw |-> FALSE, value |-> v, reads |-> reads]
Throws(msg, reads) == [threw |-> TRUE, value |-> msg, reads |-> reads]

getDefaultIncludeDirs(win) ==
    IF win
    THEN Throws("OPENCV_INCLUDE_DIR has to be defined on windows when auto build is disabled", <<>>)
    ELSE Returns(<<defaultIncludeDir, defaultIncludeDirOpenCV4>>, <<>>)

\* the default library directory without the platform test
getDefaultLibDirAnyPlatform(win) == Returns(defaultLibDir, <<>>)

getDefaultLibDir(win) ==
    IF win
    THEN Throws("OPENCV_LIB_DIR has to be defined on windows when auto build is disabled", <<>>)
    ELSE Returns(defaultLibDir, <<>>)

\* the library directory with the override consulted in both build modes
getLibDirOverrideFirst(env, penv, win) ==
    LET over == resolvePath(penv["OPENCV_LIB_DIR"])
        dir == resolvePath(env.opencvLibDir)
    IN IF Truthy(over) THEN Returns(over, <<"OPENCV_LIB_DIR">>)
       ELSE IF env.isAutoBuildDisabled
       THEN [getDefaultLibDir(win) EXCEPT !.reads = <<"OPENCV_LIB_DIR">>]
       ELSE IF ~Truthy(dir) THEN Throws("failed to resolve opencvLibDir path", <<>>)
       ELSE Returns(dir, <<>>)

getLibDir(env, penv, win) ==
    IF env.isAutoBuildDisabled
    THEN LET dir == resolvePath(penv["OPENCV_LIB_DIR"])
             dflt == getDefaultLibDir(win)
         IN IF Truthy(dir) THEN Returns(dir, <<"OPENCV_LIB_DIR">>)
            ELSE [dflt EXCEPT !.reads = <<"OPENCV_LIB_DIR">>]
    ELSE LET dir == resolvePath(env.opencvLibDir)
         IN IF ~Truthy(dir) THEN Throws("failed to resolve opencvLibDir path", <<>>)
            ELSE Returns(dir, <<>>)

\* the link arguments with the rpath token put before the libraries
getOPENCV4NODEJS_LIBRARIES_RpathFirst(win, dir, libsFound) ==
    IF win
    THEN [i \in 1..Len(libsFound) |-> resolvePath(libsFound[i].libPath)]
    ELSE (<<"-L" \o dir, "-Wl,-rpath," \o dir>>
            \o [i \in 1..Len(libsFound) |->
                  "-lopencv_" \o Text(libsFound[i].opencvModule)])

\* the link arguments without the platform test: the dynamic link tokens on
\* every platform
getOPENCV4NODEJS_LIBRARIES_DynamicEverywhere(win, dir, libsFound) ==
    (<<"-L" \o dir>>
        \o [i \in 1..Len(libsFound) |->
              "-lopencv_" \o Text(libsFound[i].opencvModule)])
        \o <<"-Wl,-rpath," \o dir>>

getOPENCV4NODEJS_LIBRARIES(win, dir, libsFound) ==
    IF win
    THEN [i \in 1..Len(libsFound) |-> resolvePath(libsFound[i].libPath)]
    ELSE (<<"-L" \o dir>>
            \o [i \in 1..Len(libsFound) |->
                  "-lopencv_" \o Text(libsFound[i].opencvModule)])
            \o <<"-Wl,-rpath," \o dir>>

\* the defines without the upper-casing of the module name
getOPENCV4NODEJS_DEFINES_AsSpelled(libsFound) ==
    [i \in 1..Len(libsFound) |->
        "OPENCV4NODEJS_FOUND_LIBRARY_" \o Text(libsFound[i].opencvModule)]

getOPENCV4NODEJS_DEFINES(libsFound) ==
    [i \in 1..Len(libsFound) |->
        "OPENCV4NODEJS_FOUND_LIBRARY_" \o Text(toUpperCase(libsFound[i].opencvModule))]

\* the include directories with the explicit override honoured in both build
\* modes
getOPENCV4NODEJS_INCLUDES_ExplicitFirst(env, penv, win, libsFound) ==
    LET OPENCV_INCLUDE_DIR == penv["OPENCV_INCLUDE_DIR"]
        explicitIncludeDir ==
            IF Truthy(OPENCV_INCLUDE_DIR) THEN resolvePath(OPENCV_INCLUDE_DIR) ELSE ""
        dflt == getDefaultIncludeDirs(win)
    IN IF Truthy(explicitIncludeDir)
       THEN Returns(<<explicitIncludeDir>>, <<"OPENCV_INCLUDE_DIR">>)
       ELSE IF env.isAutoBuildDisabled
       THEN [dflt EXCEPT !.reads = <<"OPENCV_INCLUDE_DIR">>]
       ELSE Returns(<<resolvePath(env.opencvInclude), resolvePath(env.opencv4Include)>>,
                    <<"OPENCV_INCLUDE_DIR">>)

getOPENCV4NODEJS_INCLUDES(env, penv, win, libsFound) ==
    LET OPENCV_INCLUDE_DIR == penv["OPENCV_INCLUDE_DIR"]
        explicitIncludeDir ==
            IF Truthy(OPENCV_INCLUDE_DIR) THEN resolvePath(OPENCV_INCLUDE_DIR) ELSE ""
        dflt == getDefaultIncludeDirs(win)
    IN IF env.isAutoBuildDisabled
       THEN IF Truthy(explicitIncludeDir)
            THEN Returns(<<explicitIncludeDir>>, <<"OPENCV_INCLUDE_DIR">>)
            ELSE [dflt EXCEPT !.reads = <<"OPENCV_INCLUDE_DIR">>]
       ELSE Returns(<<resolvePath(env.opencvInclude), resolvePath(env.opencv4Include)>>,
                    <<"OPENCV_INCLUDE_DIR">>)

(***************************************************************************)
(* The state of one invocation of compileLib.                              *)
(***************************************************************************)
VARIABLES
    args,            \* the argument list compileLib is called with
    isWin,           \* isWin() of the platform
    procEnv,         \* process.env
    fs,              \* the paths that exist on the filesystem
    pc,              \* the step the run is at
    dryRun,          \* line 88
    JOBS,            \* line 89
    options,         \* line 97
    builderEnv,      \* builder.env, line 117
    libDir,          \* line 123
    libsInDir,       \* line 131
    libsFoundInDir,  \* line 132
    defines,         \* getOPENCV4NODEJS_DEFINES(...), line 138
    includes,        \* getOPENCV4NODEJS_INCLUDES(...), line 139
    libraries,       \* getOPENCV4NODEJS_LIBRARIES(...), line 140
    flags,           \* line 145
    nodegypCmd,      \* line 163
    child,           \* the child process: "none", "running", "exited"
    childError,      \* the error the child completed with, or Undefined
    promise,         \* the promise compileLib returned
    thrown,          \* the message of the error that ended the run
    trace,           \* the effects of the run, in order: <<operation, argument>>
    firstRun         \* what an earlier invocation with the same inputs did

vars == <<args, isWin, procEnv, fs, pc, dryRun, JOBS, options, builderEnv, libDir,
          libsInDir, libsFoundInDir, defines, includes, libraries, flags,
          nodegypCmd, child, childError, promise, thrown, trace, firstRun>>

InputVars == {"OPENCV_LIB_DIR", "OPENCV_INCLUDE_DIR", "BINDINGS_DEBUG"}
ExportedVars == <<"OPENCV4NODEJS_DEFINES", "OPENCV4NODEJS_INCLUDES", "OPENCV4NODEJS_LIBRARIES">>
ExportedVarSet == {ExportedVars[i] : i \in 1..Len(ExportedVars)}

\* the library directories a run can locate
LibDirs == {defaultLibDir, PathResolve("opencv/lib"), builtLibDir}

\* builder.env before the builder is constructed
NoEnv ==
    [isAutoBuildDisabled |-> FALSE, opencvLibDir |-> Undefined,
     opencvInclude |-> Undefined, opencv4Include |-> Undefined]

\* the environments new OpenCVBuilder(options) can resolve: auto build is
\* disabled by the option, and may be disabled by the builder's own settings;
\* with auto build enabled the library directory of the build may be unset
BuilderEnvs(opts) ==
    {e \in [isAutoBuildDisabled : IF opts.disableAutoBuild THEN {TRUE} ELSE BOOLEAN,
            opencvLibDir : {Undefined, builtLibDir},
            opencvInclude : {builtInclude},
            opencv4Include : {builtInclude4}] :
        e.isAutoBuildDisabled => e.opencvLibDir = builtLibDir}

\* the errors child_process.exec can complete with
ChildErrors == {"Error: Command failed (code 1)", "Error: spawn ENOENT (code ENOENT)"}

\* the state compileLib is called in
Invoked ==
    /\ args \in ArgLists
    /\ isWin \in BOOLEAN
    /\ procEnv \in {[n \in InputVars \cup ExportedVarSet |->
                       CASE n = "OPENCV_LIB_DIR" -> l
                         [] n = "OPENCV_INCLUDE_DIR" -> i
                         [] n = "BINDINGS_DEBUG" -> d
                         [] OTHER -> Undefined] :
                     l \in EnvLibDirValues, i \in EnvIncludeDirValues, d \in EnvDebugValues}
    \* OpenCV is installed in the library directories or in none; each
    \* descriptor file exists or not
    /\ fs \in {d \cup g : d \in {{}, LibDirs}, g \in SUBSET {hidenGyp, realGyp}}
    /\ pc = "ParsingOptions"
    /\ dryRun = FALSE
    /\ JOBS = "max"
    /\ options = [disableAutoBuild |-> FALSE]
    /\ builderEnv = NoEnv
    /\ libDir = Undefined
    /\ libsInDir = <<>>
    /\ libsFoundInDir = <<>>
    /\ defines = <<>>
    /\ includes = <<>>
    /\ libraries = <<>>
    /\ flags = ""
    /\ nodegypCmd = ""
    /\ child = "none"
    /\ childError = Undefined
    /\ promise = "pending"
    /\ thrown = Undefined
    /\ trace = <<>>

\* no earlier invocation
NoRun == [stage |-> "single"]

Init == Invoked /\ firstRun = NoRun

\* the events of reading the variables in names
ReadEvents(names) == [i \in 1..Len(names) |-> <<"envRead", names[i]>>]

\* an error thrown inside compileLib rejects its promise and ends the run
Fail(msg, events) ==
    /\ pc' = "Failed"
    /\ promise' = "rejected"
    /\ thrown' = msg
    /\ trace' = trace \o events

(***************************************************************************)
(* compileLib, lines 87-187, step by step.                                 *)
(***************************************************************************)
\* line 92 without the short option: -h no longer asks for the usage
wantsUsageLongOnly(parsed, a) == parsed.help \/ "build" \notin a

\* line 92: the usage text is wanted
wantsUsage(parsed, a) == parsed.help \/ parsed.h \/ "build" \notin a

\* line 109 reading one spelling only: --dryrun is ignored
parseDryRunHyphenOnly(parsed) == parsed.dry_run

\* line 109
parseDryRun(parsed) == parsed.dryrun \/ parsed.dry_run

\* the jobs option read from its long spelling only
parseJobsLongOnly(parsed) ==
    IF Truthy(parsed.jobs) THEN parsed.jobs ELSE "max"

\* lines 89, 107, 108
parseJobs(parsed) ==
    IF Truthy(parsed.j) THEN parsed.j
    ELSE IF Truthy(parsed.jobs) THEN parsed.jobs
    ELSE "max"

\* lines 88-109: parse the arguments; print the usage and return, or keep
\* the options
ParseOptions ==
    /\ pc = "ParsingOptions"
    /\ LET parsed == Mri(args)
       IN IF wantsUsage(parsed, args)
          THEN /\ trace' = Append(trace, <<"print", usageText>>)
               /\ pc' = "Done"
               /\ promise' = "fulfilled"
               /\ UNCHANGED <<options, JOBS, dryRun>>
          ELSE /\ options' = [disableAutoBuild |-> parsed.nobuild]
               /\ JOBS' = parseJobs(parsed)
               /\ dryRun' = parseDryRun(parsed)
               /\ pc' = "ResolvingEnvironment"
               /\ UNCHANGED <<trace, promise>>
    /\ UNCHANGED <<firstRun, args, isWin, procEnv, fs, builderEnv, libDir, libsInDir,
                   libsFoundInDir, defines, includes, libraries, flags,
                   nodegypCmd, child, childError, thrown>>

\* line 117: new OpenCVBuilder(options) resolves the build environment
ConstructBuilder ==
    /\ pc = "ResolvingEnvironment"
    /\ \E e \in BuilderEnvs(options) : builderEnv' = e
    /\ trace' = Append(trace, <<"new", "OpenCVBuilder">>)
    /\ pc' = "LocatingLibDir"
    /\ UNCHANGED <<firstRun, args, isWin, procEnv, fs, dryRun, JOBS, options, libDir,
                   libsInDir, libsFoundInDir, defines, includes, libraries,
                   flags, nodegypCmd, child, childError, promise, thrown>>

\* line 117: the constructor throws
ConstructBuilderThrows ==
    /\ pc = "ResolvingEnvironment"
    /\ Fail("OpenCVBuilder: cannot resolve the build environment", <<>>)
    /\ UNCHANGED <<firstRun, args, isWin, procEnv, fs, dryRun, JOBS, options, builderEnv,
                   libDir, libsInDir, libsFoundInDir, defines, includes,
                   libraries, flags, nodegypCmd, child, childError>>

\* line 123: getLibDir(builder.env)
LocateLibDir ==
    /\ pc = "LocatingLibDir"
    /\ LET r == getLibDir(builderEnv, procEnv, isWin)
       IN IF r.threw
          THEN /\ Fail(r.value, ReadEvents(r.reads))
               /\ UNCHANGED libDir
          ELSE /\ libDir' = r.value
               /\ trace' = trace \o ReadEvents(r.reads)
               /\ pc' = "EnsuringInstalled"
               /\ UNCHANGED <<promise, thrown>>
    /\ UNCHANGED <<firstRun, args, isWin, procEnv, fs, dryRun, JOBS, options, builderEnv,
                   libsInDir, libsFoundInDir, defines, includes, libraries,
                   flags, nodegypCmd, child, childError>>

\* fs.existsSync(path), with the event of the answer
existsSync(files, path) == path \in files
ExistsEvent(files, path) ==
    <<IF existsSync(files, path) THEN "exists" ELSE "missing", path>>

\* line 125 without the check: builder.install() is always called
needsInstallAlways(files, dir) == TRUE

\* line 125: the condition under which builder.install() is called
needsInstall(files, dir) == ~existsSync(files, dir)

\* lines 125-126: the first check of the library directory; calls
\* builder.install() and awaits it when the directory is missing
CheckLibDir ==
    /\ pc = "EnsuringInstalled"
    /\ IF needsInstall(fs, libDir)
       THEN /\ trace' = trace \o <<ExistsEvent(fs, libDir), <<"install", libDir>>>>
            /\ pc' = "Installing"
       ELSE /\ trace' = Append(trace, ExistsEvent(fs, libDir))
            /\ pc' = "Rechecking"
    /\ UNCHANGED <<firstRun, args, isWin, procEnv, fs, dryRun, JOBS, options, builderEnv,
                   libDir, libsInDir, libsFoundInDir, defines, includes,
                   libraries, flags, nodegypCmd, child, childError, promise,
                   thrown>>

\* line 126: builder.install() completes, having built the library
\* directory or not
InstallCompletes ==
    /\ pc = "Installing"
    /\ \E built \in BOOLEAN : fs' = IF built THEN fs \cup {libDir} ELSE fs
    /\ pc' = "Rechecking"
    /\ UNCHANGED <<firstRun, args, isWin, procEnv, dryRun, JOBS, options, builderEnv,
                   libDir, libsInDir, libsFoundInDir, defines, includes,
                   libraries, flags, nodegypCmd, child, childError, promise,
                   thrown, trace>>

\* line 126: builder.install() rejects
InstallThrows ==
    /\ pc = "Installing"
    /\ Fail("OpenCVBuilder: install failed", <<>>)
    /\ UNCHANGED <<firstRun, args, isWin, procEnv, fs, dryRun, JOBS, options, builderEnv,
                   libDir, libsInDir, libsFoundInDir, defines, includes,
                   libraries, flags, nodegypCmd, child, childError>>

\* the second check going back to the install when the directory is still
\* missing, instead of failing
RecheckLibDirRetrying ==
    /\ pc = "Rechecking"
    /\ trace' = Append(trace, ExistsEvent(fs, libDir))
    /\ pc' = IF ~existsSync(fs, libDir) THEN "EnsuringInstalled"
             ELSE "EnumeratingLibraries"
    /\ UNCHANGED <<promise, thrown>>
    /\ UNCHANGED <<firstRun, args, isWin, procEnv, fs, dryRun, JOBS, options, builderEnv,
                   libDir, libsInDir, libsFoundInDir, defines, includes,
                   libraries, flags, nodegypCmd, child, childError>>

\* lines 128-130: the second check of the library directory
RecheckLibDir ==
    /\ pc = "Rechecking"
    /\ IF ~existsSync(fs, libDir)
       THEN Fail("library dir does not exist: " \o libDir, <<ExistsEvent(fs, libDir)>>)
       ELSE /\ trace' = Append(trace, ExistsEvent(fs, libDir))
            /\ pc' = "EnumeratingLibraries"
            /\ UNCHANGED <<promise, thrown>>
    /\ UNCHANGED <<firstRun, args, isWin, procEnv, fs, dryRun, JOBS, options, builderEnv,
                   libDir, libsInDir, libsFoundInDir, defines, includes,
                   libraries, flags, nodegypCmd, child, childError>>

\* line 133 without the guard: an empty sequence is passed on
noLibrariesFoundIgnored(found) == FALSE

\* line 133: no library was found
noLibrariesFound(found) == Len(found) = 0

\* lines 131-135: list the modules and keep the ones found on disk
EnumerateLibraries ==
    /\ pc = "EnumeratingLibraries"
    /\ \E resp \in BuilderResponses :
        /\ libsInDir' = resp
        /\ libsFoundInDir' = filterLibPath(resp)
        /\ IF noLibrariesFound(filterLibPath(resp))
           THEN Fail("no OpenCV libraries found in lib dir: " \o libDir,
                     <<<<"getLibs", libDir>>>>)
           ELSE /\ trace' = Append(trace, <<"getLibs", libDir>>)
                /\ pc' = "DerivingFlags"
                /\ UNCHANGED <<promise, thrown>>
    /\ UNCHANGED <<firstRun, args, isWin, procEnv, fs, dryRun, JOBS, options, builderEnv,
                   libDir, defines, includes, libraries, flags, nodegypCmd,
                   child, childError>>

\* the three strings joined with a comma
ExportedCommaJoined(defs, incs, libs) ==
    <<join(defs, ","), join(incs, ","), join(libs, ",")>>

\* the three joined strings of lines 138-140, in the order of ExportedVars
Exported(defs, incs, libs) == <<join(defs, ";"), join(incs, ";"), join(libs, ";")>>

\* the derivation exporting each sequence as soon as it is derived: the
\* defines are written before the include derivation can throw
DeriveFlagsExportingEach ==
    /\ pc = "DerivingFlags"
    /\ defines' = getOPENCV4NODEJS_DEFINES(libsFoundInDir)
    /\ LET inc == getOPENCV4NODEJS_INCLUDES(builderEnv, procEnv, isWin, libsFoundInDir)
           libs == getOPENCV4NODEJS_LIBRARIES(isWin, libDir, libsFoundInDir)
           out == Exported(defines', includes', libraries')
       IN IF inc.threw
          THEN /\ Fail(inc.value, <<<<"envWrite", ExportedVars[1]>>>> \o ReadEvents(inc.reads))
               /\ procEnv' = [procEnv EXCEPT ![ExportedVars[1]] = join(defines', ";")]
               /\ UNCHANGED <<includes, libraries>>
          ELSE /\ includes' = inc.value
               /\ libraries' = libs
               /\ procEnv' = [n \in DOMAIN procEnv |->
                                IF \E i \in 1..3 : ExportedVars[i] = n
                                THEN out[CHOOSE i \in 1..3 : ExportedVars[i] = n]
                                ELSE procEnv[n]]
               /\ trace' = trace \o ReadEvents(inc.reads)
                                 \o [i \in 1..3 |-> <<"envWrite", ExportedVars[i]>>]
               /\ pc' = "StagingBuildDescriptor"
               /\ UNCHANGED <<promise, thrown>>
    /\ UNCHANGED <<firstRun, args, isWin, fs, dryRun, JOBS, options, builderEnv, libDir,
                   libsInDir, libsFoundInDir, flags, nodegypCmd, child,
                   childError>>

\* lines 138-143: derive the three sequences and export them; an error of
\* the include derivation leaves line 139 before anything is exported
DeriveFlags ==
    /\ pc = "DerivingFlags"
    /\ defines' = getOPENCV4NODEJS_DEFINES(libsFoundInDir)
    /\ LET inc == getOPENCV4NODEJS_INCLUDES(builderEnv, procEnv, isWin, libsFoundInDir)
           libs == getOPENCV4NODEJS_LIBRARIES(isWin, libDir, libsFoundInDir)
           out == Exported(defines', includes', libraries')
       IN IF inc.threw
          THEN /\ Fail(inc.value, ReadEvents(inc.reads))
               /\ UNCHANGED <<includes, libraries, procEnv>>
          ELSE /\ includes' = inc.value
               /\ libraries' = libs
               /\ procEnv' = [n \in DOMAIN procEnv |->
                                IF \E i \in 1..3 : ExportedVars[i] = n
                                THEN out[CHOOSE i \in 1..3 : ExportedVars[i] = n]
                                ELSE procEnv[n]]
               /\ trace' = trace \o ReadEvents(inc.reads)
                                 \o [i \in 1..3 |-> <<"envWrite", ExportedVars[i]>>]
               /\ pc' = "StagingBuildDescriptor"
               /\ UNCHANGED <<promise, thrown>>
    /\ UNCHANGED <<firstRun, args, isWin, fs, dryRun, JOBS, options, builderEnv, libDir,
                   libsInDir, libsFoundInDir, flags, nodegypCmd, child,
                   childError>>

\* lines 145-149
composeFlags(penv, jobs) ==
    (IF Truthy(penv["BINDINGS_DEBUG"]) THEN " --debug" ELSE "") \o " --jobs " \o jobs

\* the staging left out in a dry run
StageBuildDescriptorUnlessDry ==
    /\ pc = "StagingBuildDescriptor"
    /\ flags' = composeFlags(procEnv, JOBS)
    /\ IF existsSync(fs, hidenGyp) /\ ~dryRun
       THEN /\ fs' = fs \cup {realGyp}
            /\ trace' = trace \o <<<<"envRead", "BINDINGS_DEBUG">>, <<"copy", realGyp>>>>
       ELSE /\ fs' = fs
            /\ trace' = Append(trace, <<"envRead", "BINDINGS_DEBUG">>)
    /\ pc' = "Spawning"
    /\ UNCHANGED <<firstRun, args, isWin, procEnv, dryRun, JOBS, options, builderEnv,
                   libDir, libsInDir, libsFoundInDir, defines, includes,
                   libraries, nodegypCmd, child, childError, promise, thrown>>

\* lines 145-158: compose the flags, then copy the hidden descriptor to the
\* active name when the hidden one exists
StageBuildDescriptor ==
    /\ pc = "StagingBuildDescriptor"
    /\ flags' = composeFlags(procEnv, JOBS)
    /\ IF existsSync(fs, hidenGyp)
       THEN /\ fs' = fs \cup {realGyp}
            /\ trace' = trace \o <<<<"envRead", "BINDINGS_DEBUG">>, <<"copy", realGyp>>>>
       ELSE /\ fs' = fs
            /\ trace' = Append(trace, <<"envRead", "BINDINGS_DEBUG">>)
    /\ pc' = "Spawning"
    /\ UNCHANGED <<firstRun, args, isWin, procEnv, dryRun, JOBS, options, builderEnv,
                   libDir, libsInDir, libsFoundInDir, defines, includes,
                   libraries, nodegypCmd, child, childError, promise, thrown>>

\* lines 168-172: what a dry run prints
DryRunOutput(out, cmd) ==
    <<<<"print", "export OPENCV4NODEJS_DEFINES=\"" \o out[1] \o "\"">>,
      <<"print", "export OPENCV4NODEJS_INCLUDES=\"" \o out[2] \o "\"">>,
      <<"print", "export OPENCV4NODEJS_LIBRARIES=\"" \o out[3] \o "\"">>,
      <<"print", cmd>>>>

\* a real run deleting the active descriptor right after starting the child,
\* without waiting for the callback
SpawnThenUnlink ==
    /\ pc = "Spawning"
    /\ nodegypCmd' = "node-gyp rebuild " \o flags
    /\ IF dryRun
       THEN /\ trace' = trace \o DryRunOutput(Exported(defines, includes, libraries),
                                              nodegypCmd')
            /\ child' = child
            /\ fs' = fs
            /\ pc' = "Done"
       ELSE /\ trace' = trace \o <<<<"exec", nodegypCmd'>>, <<"unlink", realGyp>>>>
            /\ child' = "running"
            /\ fs' = fs \ {realGyp}
            /\ pc' = "Cleanup"
    /\ promise' = "fulfilled"
    /\ UNCHANGED <<firstRun, args, isWin, procEnv, dryRun, JOBS, options, builderEnv,
                   libDir, libsInDir, libsFoundInDir, defines, includes,
                   libraries, flags, childError, thrown>>

\* lines 163-186: compose the command; a dry run prints it, a real run
\* starts the child with the completion callback and returns
Spawn ==
    /\ pc = "Spawning"
    /\ nodegypCmd' = "node-gyp rebuild " \o flags
    /\ IF dryRun
       THEN /\ trace' = trace \o DryRunOutput(Exported(defines, includes, libraries),
                                              nodegypCmd')
            /\ child' = child
            /\ pc' = "Done"
       ELSE /\ trace' = Append(trace, <<"exec", nodegypCmd'>>)
            /\ child' = "running"
            /\ pc' = "Cleanup"
    /\ promise' = "fulfilled"
    /\ UNCHANGED <<firstRun, args, isWin, procEnv, fs, dryRun, JOBS, options, builderEnv,
                   libDir, libsInDir, libsFoundInDir, defines, includes,
                   libraries, flags, childError, thrown>>

\* the callback deleting the descriptor in its success branch only: a failed
\* child leaves the file
ExecCallbackDeleteOnSuccess(error) ==
    IF error # Undefined
    THEN /\ fs' = fs
         /\ trace' = Append(trace, <<"log.error", "install.ts failed and return " \o error>>)
         /\ pc' = "Done"
         /\ thrown' = thrown
    ELSE IF existsSync(fs, realGyp)
    THEN /\ fs' = fs \ {realGyp}
         /\ trace' = trace \o <<<<"unlink", realGyp>>,
                                <<"log.info", "install.ts complet with no error">>>>
         /\ pc' = "Done"
         /\ thrown' = thrown
    ELSE /\ fs' = fs
         /\ trace' = Append(trace, <<"unlink", realGyp>>)
         /\ pc' = "Failed"
         /\ thrown' = "ENOENT: no such file or directory, unlink " \o realGyp

\* lines 176-182, the completion callback of exec: delete the active
\* descriptor, then report the outcome.  fs.unlinkSync throws for a missing
\* file; nothing catches it, and the callback ends there
ExecCallback(error) ==
    IF existsSync(fs, realGyp)
    THEN /\ fs' = fs \ {realGyp}
         /\ trace' = trace \o
                <<<<"unlink", realGyp>>,
                  IF error # Undefined
                  THEN <<"log.error", "install.ts failed and return " \o error>>
                  ELSE <<"log.info", "install.ts complet with no error">>>>
         /\ pc' = "Done"
         /\ thrown' = thrown
    ELSE /\ fs' = fs
         /\ trace' = Append(trace, <<"unlink", realGyp>>)
         /\ pc' = "Failed"
         /\ thrown' = "ENOENT: no such file or directory, unlink " \o realGyp

\* line 175: the child completes, with an error or without, and exec calls
\* the callback
ChildExit ==
    /\ pc = "Cleanup"
    /\ child = "running"
    /\ \E error \in ChildErrors \cup {Undefined} :
        /\ childError' = error
        /\ ExecCallback(error)
    /\ child' = "exited"
    /\ UNCHANGED <<firstRun, args, isWin, procEnv, dryRun, JOBS, options, builderEnv,
                   libDir, libsInDir, libsFoundInDir, defines, includes,
                   libraries, flags, nodegypCmd, promise>>

\* lines 175-186: the process is killed while the child runs; the callback
\* of line 175 is never called
ProcessKilled ==
    /\ pc = "Cleanup"
    /\ child = "running"
    /\ pc' = "Killed"
    /\ UNCHANGED <<firstRun, args, isWin, procEnv, fs, dryRun, JOBS, options, builderEnv,
                   libDir, libsInDir, libsFoundInDir, defines, includes,
                   libraries, flags, nodegypCmd, child, childError, promise,
                   thrown, trace>>

Next ==
    \/ ParseOptions
    \/ ConstructBuilder
    \/ ConstructBuilderThrows
    \/ LocateLibDir
    \/ CheckLibDir
    \/ InstallCompletes
    \/ InstallThrows
    \/ RecheckLibDir
    \/ EnumerateLibraries
    \/ DeriveFlags
    \/ StageBuildDescriptor
    \/ Spawn
    \/ ChildExit
    \/ ProcessKilled

Spec == Init /\ [][Next]_vars

\* the steps of a process that is not killed
LiveNext ==
    \/ ParseOptions
    \/ ConstructBuilder
    \/ ConstructBuilderThrows
    \/ LocateLibDir
    \/ CheckLibDir
    \/ InstallCompletes
    \/ InstallThrows
    \/ RecheckLibDir
    \/ EnumerateLibraries
    \/ DeriveFlags
    \/ StageBuildDescriptor
    \/ Spawn
    \/ ChildExit

\* the runs in which every pending step is eventually taken: the awaited
\* install settles, the child completes and its callback is called
FairSpec == Init /\ [][LiveNext]_vars /\ WF_vars(LiveNext)

(***************************************************************************)
(* Reading the trace of effects.                                           *)
(***************************************************************************)
\* the positions of the events of an operation
Ops(op) == {i \in 1..Len(trace) : trace[i][1] = op}
Has(op) == Ops(op) # {}

\* no effect beyond printing
NoEffectYet ==
    /\ \A i \in 1..Len(trace) : trace[i][1] = "print"
    /\ child = "none"
    /\ builderEnv = NoEnv

\* help is requested, or the token build is missing
UsageRequested == "--help" \in args \/ "-h" \in args \/ "build" \notin args

\* dry run is set
DryRunRequested == "--dry-run" \in args \/ "--dryrun" \in args

\* nothing was exported, staged or spawned
NothingExported ==
    /\ ~Has("envWrite")
    /\ \A i \in 1..Len(ExportedVars) : procEnv[ExportedVars[i]] = Undefined
    /\ ~Has("copy")
    /\ ~Has("unlink")
    /\ ~Has("exec")
    /\ child = "none"

(***************************************************************************)
(* C1.  When help is requested (--help or -h) or the token build is        *)
(* absent, compileLib prints the usage text and finishes in Done in one    *)
(* step that reads and writes no environment variable, constructs no      *)
(* builder, runs no install, copies and deletes no file and spawns no      *)
(* child; nothing happens after Done.  This includes build given together  *)
(* with help.                                                              *)
(***************************************************************************)
C1_UsageHasNoSideEffect ==
    [][UsageRequested =>
         /\ pc = "ParsingOptions"
         /\ pc' = "Done"
         /\ promise' = "fulfilled"
         /\ trace' = <<<<"print", usageText>>>>
         /\ UNCHANGED <<procEnv, fs, child, builderEnv, thrown>>
         /\ NoEffectYet']_vars

C1_Witness ==
    /\ "build" \in args
    /\ "--help" \in args
    /\ pc = "Done"
    /\ trace = <<<<"print", usageText>>>>

(***************************************************************************)
(* C2.  In a run with dry-run set (--dry-run or --dryrun) no child is ever *)
(* spawned and the active descriptor is never deleted; when the run        *)
(* reaches Spawning the hidden descriptor, if it exists, has been copied   *)
(* to the active name; and once the command is composed the run is in      *)
(* Done, compileLib having returned.                                       *)
(***************************************************************************)
C2_DryRunNeverSpawns ==
    DryRunRequested =>
        /\ ~Has("exec")
        /\ ~Has("unlink")
        /\ child = "none"
        /\ pc # "Cleanup"
        /\ (pc = "Spawning" \/ nodegypCmd # "") =>
              (hidenGyp \in fs => Has("copy") /\ realGyp \in fs)
        /\ nodegypCmd # "" => pc = "Done" /\ promise = "fulfilled"

C2_Witness ==
    /\ "--dryrun" \in args
    /\ pc = "Done"
    /\ nodegypCmd # ""
    /\ Has("copy")
    /\ realGyp \in fs

\* the positions at which the outcome of the child is reported
Reports == Ops("log.error") \cup Ops("log.info")

(***************************************************************************)
(* C3.  In a real run, once the child has completed, with an error or      *)
(* without, the completion callback has called unlinkSync on the active    *)
(* descriptor, exactly once and before any report of the outcome, and the  *)
(* active descriptor no longer exists.                                     *)
(***************************************************************************)
C3_DescriptorDeletedOnCompletion ==
    child = "exited" =>
        /\ Cardinality(Ops("unlink")) = 1
        /\ \A i \in Ops("unlink") :
              /\ trace[i][2] = realGyp
              /\ \A j \in Reports : i < j
              /\ \A j \in Ops("exec") : j < i
        /\ realGyp \notin fs

C3_Witness ==
    /\ child = "exited"
    /\ childError # Undefined
    /\ Has("copy")
    /\ Has("log.error")
    /\ realGyp \notin fs

(***************************************************************************)
(* C4.  A failure to delete the active descriptor during Cleanup is logged *)
(* and swallowed: whatever the deletion does, the completed run raises no  *)
(* error, is not Failed, and the outcome of the child is reported.         *)
(***************************************************************************)
C4_CleanupFailureSwallowed ==
    child = "exited" =>
        /\ thrown = Undefined
        /\ pc # "Failed"
        /\ Reports # {}

(***************************************************************************)
(* C5.  In a real run a child that completes with an error ends the run    *)
(* in Failed with the error surfaced to the caller as a rejected promise;  *)
(* the run is in Done with compileLib returned normally only when the      *)
(* child succeeded.                                                        *)
(***************************************************************************)
C5_ChildFailureIsThrown ==
    /\ (child = "exited" /\ childError # Undefined) =>
          (pc = "Failed" /\ promise = "rejected" /\ thrown # Undefined)
    /\ (Has("exec") /\ pc = "Done") =>
          (child = "exited" /\ childError = Undefined)

\* the positions of the checks of the library directory
Checks == Ops("exists") \cup Ops("missing")

\* the smallest position of a non-empty set of positions
First(posns) == CHOOSE i \in posns : \A j \in posns : i <= j

(***************************************************************************)
(* C6.  builder.install() is called at most once, and exactly when the     *)
(* first check finds the library directory missing; after the install the  *)
(* directory is checked again; a run that finds it still missing fails     *)
(* with 'library dir does not exist' before it enumerates, exports,        *)
(* stages or spawns anything, and the modules are enumerated only with the *)
(* directory on disk.                                                      *)
(***************************************************************************)
C6_InstallIffMissing ==
    /\ Cardinality(Ops("install")) <= 1
    /\ Has("install") <=> (Checks # {} /\ trace[First(Checks)][1] = "missing")
    /\ \A i \in Ops("install") :
          /\ i = First(Checks) + 1
          /\ pc \notin {"Installing", "Rechecking"} /\ thrown # "OpenCVBuilder: install failed"
                => \E j \in Checks : j > i
    /\ \A i \in Ops("missing") :
          i # First(Checks) =>
              /\ i = Len(trace)
              /\ pc = "Failed"
              /\ promise = "rejected"
              /\ thrown = "library dir does not exist: " \o libDir
              /\ ~Has("getLibs")
              /\ libsInDir = <<>>
              /\ NothingExported
    /\ Has("getLibs") => libDir \in fs /\ trace[First(Ops("getLibs")) - 1] = <<"exists", libDir>>

C6_Witness ==
    /\ Has("install")
    /\ pc = "Failed"
    /\ thrown = "library dir does not exist: " \o libDir
    /\ Cardinality(Ops("missing")) = 2

(***************************************************************************)
(* C7.  When no entry of the builder's module list has a library path      *)
(* (the empty list included), the run fails with 'no OpenCV libraries      *)
(* found'; no flags are derived, nothing is exported, staged or spawned;   *)
(* and the steps after the enumeration only ever see a non-empty module    *)
(* sequence.                                                               *)
(***************************************************************************)
C7_NoLibrariesIsFatal ==
    /\ (Has("getLibs") /\ \A i \in 1..Len(libsInDir) : libsInDir[i].libPath = Undefined) =>
          /\ pc = "Failed"
          /\ promise = "rejected"
          /\ thrown = "no OpenCV libraries found in lib dir: " \o libDir
          /\ defines = <<>> /\ includes = <<>> /\ libraries = <<>>
          /\ flags = "" /\ nodegypCmd = ""
          /\ NothingExported
    /\ pc \in {"DerivingFlags", "StagingBuildDescriptor", "Spawning", "Cleanup"}
          => Len(libsFoundInDir) > 0
    /\ Has("envWrite") \/ Has("copy") \/ Has("exec") => Len(libsFoundInDir) > 0

C7_Witness ==
    /\ Has("getLibs")
    /\ Len(libsInDir) = 2
    /\ \A i \in 1..Len(libsInDir) : libsInDir[i].libPath = Undefined
    /\ pc = "Failed"

\* the positions of the entries with a library path
Present(seq) == {i \in 1..Len(seq) : seq[i].libPath # Undefined}

\* the k-th smallest position of a set of positions
Kth(posns, k) == CHOOSE i \in posns : Cardinality({j \in posns : j < i}) = k - 1

(***************************************************************************)
(* C8.  The found modules are the builder's list restricted to the entries *)
(* with a library path, in the builder's order: the k-th found module is   *)
(* the k-th entry with a path; and filtering the found modules again       *)
(* changes nothing.                                                        *)
(***************************************************************************)
C8_FilterKeepsOrder ==
    Has("getLibs") =>
        /\ Len(libsFoundInDir) = Cardinality(Present(libsInDir))
        /\ \A k \in 1..Len(libsFoundInDir) :
              libsFoundInDir[k] = libsInDir[Kth(Present(libsInDir), k)]
        /\ filterLibPath(libsFoundInDir) = libsFoundInDir

C8_Witness ==
    /\ Has("getLibs")
    /\ Len(libsInDir) = 2
    /\ libsInDir[1].libPath = Undefined
    /\ Len(libsFoundInDir) = 1
    /\ libsFoundInDir[1] = libsInDir[2]

\* the module names as the strings they spell, written out
Spelled(name) ==
    CASE name = Core -> "core"
      [] name = Imgproc -> "imgproc"
      [] name = Features2d -> "features2d"

\* the upper-cased module names, written out
SpelledUpper(name) ==
    CASE name = Core -> "CORE"
      [] name = Imgproc -> "IMGPROC"
      [] name = Features2d -> "FEATURES2D"

\* the names of the found modules, in order
FoundNames == [i \in 1..Len(libsFoundInDir) |-> libsFoundInDir[i].opencvModule]

\* line 138 has run
DefinesDerived == Len(libsFoundInDir) > 0 /\ pc # "DerivingFlags"

(***************************************************************************)
(* C9.  The defines are as many as the found modules, and the i-th define  *)
(* is OPENCV4NODEJS_FOUND_LIBRARY_ followed by the upper-cased name of the *)
(* i-th module; modules (core, imgproc) give                               *)
(* (OPENCV4NODEJS_FOUND_LIBRARY_CORE, OPENCV4NODEJS_FOUND_LIBRARY_IMGPROC).*)
(***************************************************************************)
C9_DefinesOneToOne ==
    DefinesDerived =>
        /\ Len(defines) = Len(libsFoundInDir)
        /\ \A i \in 1..Len(libsFoundInDir) :
              defines[i] = "OPENCV4NODEJS_FOUND_LIBRARY_" \o SpelledUpper(FoundNames[i])
        /\ FoundNames = <<Core, Imgproc>> =>
              defines = <<"OPENCV4NODEJS_FOUND_LIBRARY_CORE",
                          "OPENCV4NODEJS_FOUND_LIBRARY_IMGPROC">>

C9_Witness ==
    /\ DefinesDerived
    /\ FoundNames = <<Core, Imgproc>>
    /\ pc = "Spawning"

(***************************************************************************)
(* C10.  On a non-Windows platform the link arguments of n found modules   *)
(* are n+2 tokens: -L<libDir>, then -lopencv_<name> for each module in     *)
(* enumeration order, then -Wl,-rpath,<libDir>; libDir /usr/local/lib and  *)
(* modules (core, imgproc) give (-L/usr/local/lib, -lopencv_core,          *)
(* -lopencv_imgproc, -Wl,-rpath,/usr/local/lib).                           *)
(***************************************************************************)
C10_LinkArgsNonWindows ==
    (~isWin /\ Has("envWrite")) =>
        LET n == Len(libsFoundInDir)
        IN /\ Len(libraries) = n + 2
           /\ libraries[1] = "-L" \o libDir
           /\ \A i \in 1..n : libraries[i + 1] = "-lopencv_" \o Spelled(FoundNames[i])
           /\ libraries[n + 2] = "-Wl,-rpath," \o libDir
           /\ (libDir = "/usr/local/lib" /\ FoundNames = <<Core, Imgproc>>) =>
                 libraries = <<"-L/usr/local/lib", "-lopencv_core", "-lopencv_imgproc",
                               "-Wl,-rpath,/usr/local/lib">>

C10_Witness ==
    /\ ~isWin
    /\ Has("envWrite")
    /\ libDir = "/usr/local/lib"
    /\ FoundNames = <<Core, Imgproc>>

\* the library files of the modules, written out
LibFileSpelled(name) ==
    CASE name = Core -> "/build/opencv/lib/libopencv_core.so"
      [] name = Imgproc -> "/build/opencv/lib/libopencv_imgproc.so"
      [] name = Features2d -> "/build/opencv/lib/libopencv_features2d.so"

\* the tokens of a dynamic link command line for the located directory
DynamicLinkTokens ==
    {"-L" \o libDir, "-Wl,-rpath," \o libDir} \cup
    {"-lopencv_" \o Spelled(n) : n \in ModuleNames}

(***************************************************************************)
(* C11.  On Windows the link arguments are one token per found module, in  *)
(* enumeration order, the i-th being the resolved library file of the i-th *)
(* module; no token is a -L, -l or -Wl,-rpath token.                       *)
(***************************************************************************)
C11_LinkArgsWindows ==
    (isWin /\ Has("envWrite")) =>
        /\ Len(libraries) = Len(libsFoundInDir)
        /\ \A i \in 1..Len(libsFoundInDir) :
              /\ libraries[i] = LibFileSpelled(FoundNames[i])
              /\ libraries[i] \notin DynamicLinkTokens

C11_Witness ==
    /\ isWin
    /\ Has("envWrite")
    /\ FoundNames = <<Imgproc, Features2d>>
    /\ libraries = <<"/build/opencv/lib/libopencv_imgproc.so",
                     "/build/opencv/lib/libopencv_features2d.so">>

\* line 123 has run
Located == Has("new") /\ pc # "LocatingLibDir"

\* line 139 has run
IncludesAttempted == \E i \in Ops("envRead") : trace[i][2] = "OPENCV_INCLUDE_DIR"

\* the run was ended by an error with this message, thrown inside compileLib
FailedWith(msg) == pc = "Failed" /\ promise = "rejected" /\ thrown = msg

(***************************************************************************)
(* C12.  Where the run falls back to the platform defaults, they depend on *)
(* the platform alone: off Windows the default library directory is        *)
(* /usr/local/lib and the default include directories are                  *)
(* (/usr/local/include, /usr/local/include/opencv4), in that order; on     *)
(* Windows either fallback throws its error and yields no value.           *)
(***************************************************************************)
C12_PlatformDefaults ==
    /\ (Located /\ builderEnv.isAutoBuildDisabled
          /\ procEnv["OPENCV_LIB_DIR"] \in {Undefined, ""}) =>
          IF isWin
          THEN /\ FailedWith("OPENCV_LIB_DIR has to be defined on windows when auto build is disabled")
               /\ libDir = Undefined
          ELSE libDir = "/usr/local/lib"
    /\ (IncludesAttempted /\ builderEnv.isAutoBuildDisabled
          /\ procEnv["OPENCV_INCLUDE_DIR"] \in {Undefined, ""}) =>
          IF isWin
          THEN /\ FailedWith("OPENCV_INCLUDE_DIR has to be defined on windows when auto build is disabled")
               /\ includes = <<>>
          ELSE includes = <<"/usr/local/include", "/usr/local/include/opencv4">>

C12_Witness ==
    /\ ~isWin
    /\ builderEnv.isAutoBuildDisabled
    /\ procEnv["OPENCV_LIB_DIR"] = Undefined
    /\ procEnv["OPENCV_INCLUDE_DIR"] = Undefined
    /\ libDir = "/usr/local/lib"
    /\ includes = <<"/usr/local/include", "/usr/local/include/opencv4">>

\* the run has read this variable of the process environment
Consulted(name) == \E i \in Ops("envRead") : trace[i][2] = name

(***************************************************************************)
(* C13.  The located library directory is decided by the build mode.       *)
(* Auto-build disabled: the resolved OPENCV_LIB_DIR when it is present and *)
(* non-empty, otherwise the platform default, which fails on Windows.      *)
(* Auto-build enabled: the resolved directory of the builder, without      *)
(* OPENCV_LIB_DIR being read, and a failure when the builder's value does  *)
(* not resolve to a path.                                                  *)
(***************************************************************************)
C13_LibDirByBuildMode ==
    Located =>
        IF builderEnv.isAutoBuildDisabled
        THEN IF procEnv["OPENCV_LIB_DIR"] = "opencv/lib"
             THEN libDir = "/home/user/opencv/lib"
             ELSE IF isWin
             THEN /\ FailedWith("OPENCV_LIB_DIR has to be defined on windows when auto build is disabled")
                  /\ libDir = Undefined
             ELSE libDir = "/usr/local/lib"
        ELSE /\ ~Consulted("OPENCV_LIB_DIR")
             /\ IF builderEnv.opencvLibDir = Undefined
                THEN /\ FailedWith("failed to resolve opencvLibDir path")
                     /\ libDir = Undefined
                ELSE libDir = "/build/opencv/lib"

C13_Witness ==
    /\ Located
    /\ ~builderEnv.isAutoBuildDisabled
    /\ procEnv["OPENCV_LIB_DIR"] = "opencv/lib"
    /\ libDir = "/build/opencv/lib"

(***************************************************************************)
(* C14.  The include sequence is decided by the build mode, the            *)
(* OPENCV_INCLUDE_DIR override and the platform, whatever modules were     *)
(* found.  Auto-build disabled: the single resolved override when it is    *)
(* set, otherwise the two platform defaults, failing on Windows.           *)
(* Auto-build enabled: the builder's base include directory followed by    *)
(* its versioned one, whether or not the override is set.                  *)
(***************************************************************************)
C14_IncludesByBuildMode ==
    IncludesAttempted =>
        IF builderEnv.isAutoBuildDisabled
        THEN IF procEnv["OPENCV_INCLUDE_DIR"] = "opencv/include"
             THEN includes = <<"/home/user/opencv/include">>
             ELSE IF isWin
             THEN /\ FailedWith("OPENCV_INCLUDE_DIR has to be defined on windows when auto build is disabled")
                  /\ includes = <<>>
             ELSE includes = <<"/usr/local/include", "/usr/local/include/opencv4">>
        ELSE includes = <<"/build/opencv/include", "/build/opencv/include/opencv4">>

C14_Witness ==
    /\ IncludesAttempted
    /\ ~builderEnv.isAutoBuildDisabled
    /\ procEnv["OPENCV_INCLUDE_DIR"] = "opencv/include"
    /\ Len(libsFoundInDir) = 2
    /\ includes = <<"/build/opencv/include", "/build/opencv/include/opencv4">>

\* the command line the claim expects for the arguments and the debug signal
\* of the run: the short spelling of the jobs option is read last
ExpectedCommand ==
    LET debug == procEnv["BINDINGS_DEBUG"] = "1"
    IN CASE "-j=2" \in args ->
                IF debug THEN "node-gyp rebuild  --debug --jobs 2"
                ELSE "node-gyp rebuild  --jobs 2"
         [] "-j=2" \notin args /\ "--jobs=4" \in args ->
                IF debug THEN "node-gyp rebuild  --debug --jobs 4"
                ELSE "node-gyp rebuild  --jobs 4"
         [] OTHER ->
                IF debug THEN "node-gyp rebuild  --debug --jobs max"
                ELSE "node-gyp rebuild  --jobs max"

RECURSIVE SemicolonJoined(_)
\* the elements of a sequence of strings written one after another with a
\* ';' between neighbours
SemicolonJoined(seq) ==
    IF Len(seq) = 0 THEN ""
    ELSE IF Len(seq) = 1 THEN seq[1]
    ELSE SemicolonJoined(SubSeq(seq, 1, Len(seq) - 1)) \o ";" \o seq[Len(seq)]

(***************************************************************************)
(* C16.  In a run that has reached Spawning the three exported variables   *)
(* have been written exactly once each, in the order DEFINES, INCLUDES,    *)
(* LIBRARIES, and hold the derived sequences joined with ';'; no write     *)
(* follows, since every write precedes the staging copy and the start of   *)
(* the child.                                                              *)
(***************************************************************************)
C16_ExportedBeforeSpawn ==
    /\ (pc = "Spawning" \/ nodegypCmd # "") =>
          /\ Cardinality(Ops("envWrite")) = 3
          /\ \A k \in 1..3 : trace[Kth(Ops("envWrite"), k)][2] = ExportedVars[k]
          /\ procEnv["OPENCV4NODEJS_DEFINES"] = SemicolonJoined(defines)
          /\ procEnv["OPENCV4NODEJS_INCLUDES"] = SemicolonJoined(includes)
          /\ procEnv["OPENCV4NODEJS_LIBRARIES"] = SemicolonJoined(libraries)
    /\ \A i \in Ops("envWrite") :
          \A j \in Ops("copy") \cup Ops("exec") \cup Ops("unlink") : i < j

C16_Witness ==
    /\ child = "running"
    /\ Has("copy")
    /\ procEnv["OPENCV4NODEJS_DEFINES"] =
          "OPENCV4NODEJS_FOUND_LIBRARY_CORE;OPENCV4NODEJS_FOUND_LIBRARY_IMGPROC"
    /\ procEnv["OPENCV4NODEJS_INCLUDES"] = "/usr/local/include;/usr/local/include/opencv4"
    /\ procEnv["OPENCV4NODEJS_LIBRARIES"] =
          "-L/usr/local/lib;-lopencv_core;-lopencv_imgproc;-Wl,-rpath,/usr/local/lib"

(***************************************************************************)
(* C17.  A real run does not wait for the child: while the child runs,     *)
(* compileLib has already returned, the active descriptor has not been     *)
(* deleted and the staged copy is on disk.  The deletion happens in the    *)
(* completion callback only, so a process killed before the callback is    *)
(* called leaves the staged descriptor on disk.                            *)
(***************************************************************************)
C17_CleanupOnlyInCallback ==
    /\ child = "running" =>
          /\ promise = "fulfilled"
          /\ ~Has("unlink")
          /\ Has("copy") => realGyp \in fs
    /\ Has("unlink") => child = "exited"
    /\ pc = "Killed" =>
          /\ Has("exec")
          /\ ~Has("unlink")
          /\ Has("copy") => realGyp \in fs

C17_Witness ==
    /\ pc = "Killed"
    /\ promise = "fulfilled"
    /\ Has("copy")
    /\ realGyp \in fs

\* the states of the orchestrator in their order
StateOrder ==
    <<"ParsingOptions", "ResolvingEnvironment", "LocatingLibDir",
      "EnsuringInstalled", "EnumeratingLibraries", "DerivingFlags",
      "StagingBuildDescriptor", "Spawning", "Cleanup", "Done">>

\* the orchestrator state a position of compileLib belongs to: the install
\* and the second check are parts of EnsuringInstalled
OrchestratorState(p) ==
    IF p \in {"Installing", "Rechecking"} THEN "EnsuringInstalled" ELSE p

Position(p) == CHOOSE i \in 1..Len(StateOrder) : StateOrder[i] = OrchestratorState(p)

\* the steps inside EnsuringInstalled
InsideEnsuringInstalled ==
    {<<"EnsuringInstalled", "Installing">>, <<"EnsuringInstalled", "Rechecking">>,
     <<"Installing", "Rechecking">>}

Terminal == pc \in {"Done", "Failed"}

(***************************************************************************)
(* C18.  Every step of a run leaves a state that is not terminal and goes  *)
(* either to Failed or to a later state of the order ParsingOptions,       *)
(* ResolvingEnvironment, LocatingLibDir, EnsuringInstalled,                *)
(* EnumeratingLibraries, DerivingFlags, StagingBuildDescriptor, Spawning,  *)
(* Cleanup, Done; and when the install and the child eventually complete,  *)
(* the run eventually is in Done or Failed, where it stays.                *)
(***************************************************************************)
C18_OrderAndTermination ==
    /\ [][/\ ~Terminal
          /\ \/ pc' = "Failed"
             \/ Position(pc) < Position(pc')
             \/ <<pc, pc'>> \in InsideEnsuringInstalled]_vars
    /\ <>Terminal

C18_Witness ==
    /\ pc = "Done"
    /\ Has("install")
    /\ child = "exited"

\* the three exported variables are all unwritten or all written
AllOrNone ==
    /\ Cardinality(Ops("envWrite")) \in {0, 3}
    /\ \/ \A i \in 1..Len(ExportedVars) : procEnv[ExportedVars[i]] = Undefined
       \/ \A i \in 1..Len(ExportedVars) : procEnv[ExportedVars[i]] # Undefined

(***************************************************************************)
(* C19.  The export is all-or-nothing.  At every moment the three exported *)
(* variables are all unwritten or all written, and a run that compileLib   *)
(* ended with an error (no library directory, directory missing after the  *)
(* install, no library found, include derivation failing) has written      *)
(* none of them, has neither copied nor deleted a descriptor and has       *)
(* started no child.                                                       *)
(***************************************************************************)
C19_ExportAllOrNothing ==
    /\ AllOrNone
    /\ (pc = "Failed" /\ promise = "rejected") => NothingExported

C19_Witness ==
    /\ isWin
    /\ FailedWith("OPENCV_INCLUDE_DIR has to be defined on windows when auto build is disabled")
    /\ Len(defines) = 2
    /\ NothingExported

(***************************************************************************)
(* Two invocations with the same inputs, the first one dry, the second one *)
(* real.                                                                   *)
(***************************************************************************)
DryRunTokens == {"--dry-run", "--dryrun"}

\* what the builder answered so far: the constructor, the install and the
\* list of modules
Responses ==
    [ctor |-> IF thrown = "OpenCVBuilder: cannot resolve the build environment"
              THEN "threw"
              ELSE IF Has("new") THEN "returned" ELSE "pending",
     env |-> builderEnv,
     install |-> IF thrown = "OpenCVBuilder: install failed" THEN "threw"
                 ELSE IF ~Has("install") \/ pc = "Installing" THEN "pending"
                 ELSE IF libDir \in fs THEN "built" ELSE "unbuilt",
     listed |-> Has("getLibs"),
     libs |-> libsInDir]

\* the builder gave the same answer wherever both invocations asked
SameAnswers(now, before) ==
    /\ \/ now.ctor = "pending"
       \/ before.ctor = "pending"
       \/ now.ctor = before.ctor /\ now.env = before.env
    /\ \/ now.install = "pending"
       \/ before.install = "pending"
       \/ now.install = before.install
    /\ \/ ~now.listed
       \/ ~before.listed
       \/ now.libs = before.libs

\* an effect of a step before Spawning
IsEarlierEffect(e) ==
    /\ e[1] \notin {"exec", "unlink", "log.error", "log.info"}
    /\ e[1] = "print" => e[2] = usageText

\* a line printed by the dry run
IsDryRunLine(e) == e[1] = "print" /\ e[2] # usageText

\* everything the steps before Spawning did
BeforeSpawning ==
    [thrown |-> thrown,
     libDir |-> libDir,
     libsFoundInDir |-> libsFoundInDir,
     defines |-> defines,
     includes |-> includes,
     libraries |-> libraries,
     exported |-> [i \in 1..Len(ExportedVars) |-> procEnv[ExportedVars[i]]],
     flags |-> flags,
     staged |-> fs,
     effects |-> SelectSeq(trace, IsEarlierEffect)]

\* the steps before Spawning are over, and nothing after Spawning has run
Decided ==
    \/ pc \in {"Spawning", "Cleanup"}
    \/ pc = "Failed" /\ promise = "rejected"
    \/ pc = "Done" /\ (nodegypCmd = "" \/ dryRun)

\* the first invocation is a dry run
PairInit ==
    /\ Invoked
    /\ args \cap DryRunTokens # {}
    /\ firstRun = [stage |-> "first", fs |-> fs]

\* compileLib is called again without the dry-run option, with the
\* environment, the platform and the filesystem of the first call
Restart ==
    /\ firstRun.stage = "first"
    /\ pc \in {"Done", "Failed"}
    /\ firstRun' = [stage |-> "second",
                    fs |-> firstRun.fs,
                    answers |-> Responses,
                    before |-> BeforeSpawning,
                    printed |-> SelectSeq(trace, IsDryRunLine)]
    /\ args' = args \ DryRunTokens
    /\ fs' = firstRun.fs
    /\ procEnv' = [n \in DOMAIN procEnv |->
                     IF n \in ExportedVarSet THEN Undefined ELSE procEnv[n]]
    /\ pc' = "ParsingOptions"
    /\ dryRun' = FALSE
    /\ JOBS' = "max"
    /\ options' = [disableAutoBuild |-> FALSE]
    /\ builderEnv' = NoEnv
    /\ libDir' = Undefined
    /\ libsInDir' = <<>>
    /\ libsFoundInDir' = <<>>
    /\ defines' = <<>>
    /\ includes' = <<>>
    /\ libraries' = <<>>
    /\ flags' = ""
    /\ nodegypCmd' = ""
    /\ child' = "none"
    /\ childError' = Undefined
    /\ promise' = "pending"
    /\ thrown' = Undefined
    /\ trace' = <<>>
    /\ UNCHANGED isWin

\* the second invocation gets the answers the first one got
Paired == firstRun.stage = "second" => SameAnswers(Responses, firstRun.answers)

PairNext ==
    \/ ParseOptions /\ Paired'
    \/ ConstructBuilder /\ Paired'
    \/ ConstructBuilderThrows /\ Paired'
    \/ LocateLibDir /\ Paired'
    \/ CheckLibDir /\ Paired'
    \/ InstallCompletes /\ Paired'
    \/ InstallThrows /\ Paired'
    \/ RecheckLibDir /\ Paired'
    \/ EnumerateLibraries /\ Paired'
    \/ DeriveFlags /\ Paired'
    \/ StageBuildDescriptor /\ Paired'
    \/ Spawn /\ Paired'
    \/ ChildExit /\ Paired'
    \/ ProcessKilled /\ Paired'
    \/ Restart

PairSpec == PairInit /\ [][PairNext]_vars

(***************************************************************************)
(* C20.  The dry-run option changes the Spawning step only.  Of two        *)
(* invocations with the same arguments but the dry-run option, the same    *)
(* environment, platform and filesystem and the same answers of the        *)
(* builder, the real one does before Spawning exactly what the dry one     *)
(* did: same install, same failure, same derived sequences and exported    *)
(* values, same staging, same flags; and the dry one printed the values    *)
(* and the command line the real one hands to the child.                   *)
(***************************************************************************)
C20_DryRunOnlyAffectsSpawning ==
    firstRun.stage = "second" =>
        /\ Decided => BeforeSpawning = firstRun.before
        /\ pc = "Cleanup" =>
              /\ ~dryRun
              /\ Len(firstRun.printed) = 4
              /\ firstRun.printed[1][2] =
                    "export OPENCV4NODEJS_DEFINES=\"" \o procEnv["OPENCV4NODEJS_DEFINES"] \o "\""
              /\ firstRun.printed[2][2] =
                    "export OPENCV4NODEJS_INCLUDES=\"" \o procEnv["OPENCV4NODEJS_INCLUDES"] \o "\""
              /\ firstRun.printed[3][2] =
                    "export OPENCV4NODEJS_LIBRARIES=\"" \o procEnv["OPENCV4NODEJS_LIBRARIES"] \o "\""
              /\ trace[Len(trace)] = <<"exec", firstRun.printed[4][2]>>

C20_Witness ==
    /\ firstRun.stage = "second"
    /\ pc = "Cleanup"
    /\ Has("install")
    /\ Has("copy")
    /\ firstRun.printed[1][2] =
          "export OPENCV4NODEJS_DEFINES=\"OPENCV4NODEJS_FOUND_LIBRARY_CORE;OPENCV4NODEJS_FOUND_LIBRARY_IMGPROC\""
    /\ firstRun.printed[4][2] = "node-gyp rebuild  --debug --jobs max"

=============================================================================
